---- MODULE Spec2Model ----
(***************************************************************************)
(* A model of prolix, a vocabulary trainer: the word store (store.py), the *)
(* user store (user.py), the quiz engine WordQuiz and the quiz session     *)
(* controller QuizRun and the flash cards Card and CardRun (core.py).      *)
(*                                                                         *)
(* Python's None is the string None; an exception that leaves a function   *)
(* is a status field holding the exception's name.  List positions are     *)
(* zero-based as in the source; TLA+ sequences are one-based, so position  *)
(* p of a list is element p + 1 of its sequence.                           *)
(***************************************************************************)
EXTENDS Integers, Sequences, FiniteSets, TLC

----------------------------------------------------------------------------
(* Bounds of the model.                                                    *)

\* number of words of the vocabulary the stores are drawn from
MaxWords == 2
\* number of distinct definition texts
MaxDefs == 2
\* largest choice count (count, choice_count) a quiz is built with
MaxCount == 2
\* largest value of the clock
MaxClock == 2

AllWords == <<"bat", "cat", "dog", "fox", "gnu">>
AllDefs == <<"d1", "d2", "d3", "d4">>

Words == {AllWords[i] : i \in 1..MaxWords}
Defs == {AllDefs[i] : i \in 1..MaxDefs}
Counts == 1..MaxCount

None == "None"

\* the rank of a word in alphabetical order (DataFrame.sort_index)
Rank(w) == CHOOSE i \in 1..Len(AllWords) : AllWords[i] = w

----------------------------------------------------------------------------
(* State.                                                                  *)

VARIABLES
  \* store.py: the csv file, its st_mtime, the module's _word_cache, time.time()
  file, mtime, word_cache, clock,
  \* core.py: the WordQuiz last built, and what its construction and the last
  \* answer() returned or raised
  quiz, last_answer,
  \* user.py: the current-user file, the module's _USER_CACHE, and the rows of
  \* the tables quiz_<user> and discarded_<user> of the database
  current_user, USER_CACHE, quiz_table, discarded_table,
  \* core.py, QuizRun: whether one was constructed, and its attributes
  \* _remaining_questions, _user.name, _quiz_on, _def_count, _answered_correctly,
  \* _quiz_on_cycle, _has_exited, _debug, and what _create_display last drew:
  \* the direction of the choices shown and the number of buttons
  started, remaining_questions, user_name, quiz_on, def_count, answered_correctly,
  quiz_on_cycle, has_exited, debug, shown_on, buttons,
  \* observers of a run: the question_count it was started with, the calls of
  \* item_chosen, those judged correct before the run ended, whether one was
  \* judged incorrect since the current question was built, what ended the run,
  \* the last call of item_chosen
  question_count, n_submits, n_correct, missed, exited_by, last,
  \* observer of the user store: per user and word, the calls of
  \* _increment_word_count made for them with field right and with field wrong
  calls,
  \* observer of the word store: what the last call of read_words returned or
  \* raised, and the loads of the file it made
  last_read,
  \* observer of the user store: the last operation on it
  user_op,
  \* core.py, CardRun: the object (words, card, _side, _has_exited, _debug), and
  \* the observers of a flash card run: the deck it started with, the words
  \* discarded in order, the last key handled, the start_on it was given and
  \* the side the last flip turned a card to
  card_run, card_obs,
  \* core.py, Card: a card built on its own (word, definition,
  \* formated_definition, side, displayed_text, and the places of fliperator
  \* and siderator in their cycles), and the observer of its faces: the side
  \* and the text it showed when it was built and after every flip
  card, card_shown

storeVars == <<file, mtime, word_cache, clock>>
quizVars == <<quiz, last_answer>>
userVars == <<current_user, USER_CACHE, quiz_table, discarded_table>>
runVars == <<started, remaining_questions, user_name, quiz_on, def_count,
             answered_correctly, quiz_on_cycle, has_exited, debug, shown_on, buttons>>
obsVars == <<question_count, n_submits, n_correct, missed, exited_by, last, calls>>
cardVars == <<card_run, card_obs, card, card_shown>>
sideVars == <<last_read, user_op, card_run, card_obs, card, card_shown>>
vars == <<file, mtime, word_cache, clock, quiz, last_answer,
          current_user, USER_CACHE, quiz_table, discarded_table,
          started, remaining_questions, user_name, quiz_on, def_count,
          answered_correctly, quiz_on_cycle, has_exited, debug, shown_on, buttons,
          question_count, n_submits, n_correct, missed, exited_by, last, calls,
          last_read, user_op, card_run, card_obs, card, card_shown>>

----------------------------------------------------------------------------
(* The word table: a DataFrame indexed by word with one column, definition,*)
(* is a function from its words to their definitions, kept in index order  *)
(* by Rank.                                                                *)

EmptyDf == [w \in {} |-> "d1"]

\* every table over the vocabulary: the words are unique, definitions need not be
Stores == UNION {[S -> Defs] : S \in SUBSET Words}

\* len(df)
DfLen(df) == Cardinality(DOMAIN df)

\* the position of a word of df in the sorted index
PosOf(df, w) == Cardinality({v \in DOMAIN df : Rank(v) < Rank(w)})

\* df.index[p]
WordAt(df, p) == CHOOSE w \in DOMAIN df : PosOf(df, w) = p

\* the cache before the first read, and after _word_cache.clear()
EmptyCache == [loaded |-> FALSE, df |-> EmptyDf, read_time |-> 0]

\* the depth at which the model gives up a recursion of read_words that does not end
MaxRecursion == 3

(* read_words: the table and the cache it leaves.  With a loaded cache it  *)
(* stats the file (FileNotFoundError when it is absent), drops the cache   *)
(* and starts over when the file is newer than the cache, and otherwise    *)
(* returns the cached table.  With an empty cache it reads the file (an    *)
(* absent file gives an empty table), stores the table with the time of    *)
(* the read, and calls itself.  reads counts the loads of the file.        *)
RECURSIVE read_words_from(_, _, _, _, _, _)
read_words_from(c, f, mt, now, fuel, reads) ==
  IF fuel = 0
    THEN [status |-> "RecursionError", df |-> EmptyDf, cache |-> c, reads |-> reads]
  ELSE IF c.loaded
    THEN IF ~f.exists
           THEN [status |-> "FileNotFoundError", df |-> EmptyDf, cache |-> c,
                 reads |-> reads]
         ELSE IF mt > c.read_time
           THEN read_words_from(EmptyCache, f, mt, now, fuel - 1, reads)
         ELSE [status |-> "ok", df |-> c.df, cache |-> c, reads |-> reads]
    ELSE read_words_from(
           [loaded |-> TRUE, df |-> IF f.exists THEN f.df ELSE EmptyDf,
            read_time |-> now],
           f, mt, now, fuel - 1, reads + 1)

read_words(c, f, mt, now) == read_words_from(c, f, mt, now, MaxRecursion, 0)

\* read_words() in the current state
ReadNow == read_words(word_cache, file, mtime, clock)

----------------------------------------------------------------------------
(* Random choices.  A draw of count values with replacement is used by the *)
(* source only through set(...), so a draw is the set of values drawn.     *)

\* set(np.random.randint(0, n, count)), set(np.random.choice(all, count))
DrawnSets(pool, count) ==
  {D \in SUBSET pool : D # {} /\ Cardinality(D) <= count}

\* every order of the members of a set: list(set), random.shuffle
Orders(S) ==
  {s \in [1..Cardinality(S) -> S] : \A i, j \in 1..Cardinality(S) : i # j => s[i] # s[j]}

\* seq[:n]
Take(seq, n) == SubSeq(seq, 1, IF n < Len(seq) THEN n ELSE Len(seq))

\* the members of a list
Range(seq) == {seq[i] : i \in 1..Len(seq)}

\* np.argmax(df.index == word): position of the first True, 0 when there is none
TrueInd(df, word) == IF word \in DOMAIN df THEN PosOf(df, word) ELSE 0

\* the true index appended, not prepended, before the cut to count
KeepIndsTrueLast(true_ind, other, count) == Take(other \o <<true_ind>>, count)

\* ([true_ind] + inds_no_correct)[:count] of _get_definitions, inds_no_correct
\* being list(set(inds) - {true_ind}) in the order other
KeepInds(true_ind, other, count) == Take(<<true_ind>> \o other, count)

(* _get_definitions up to the assertions: every list of index values inds  *)
(* it can reach for a word and a count on the table df.                    *)
IndexLists(df, word, count) ==
  LET true_ind == TrueInd(df, word) IN
  UNION {UNION {Orders(Range(KeepInds(true_ind, other, count)))
                  : other \in Orders(D \ {true_ind})}
           : D \in DrawnSets(0..(DfLen(df) - 1), count)}

\* assert len(inds) == len(set(inds)) and assert true_ind in inds
AssertionsHold(inds, true_ind) ==
  /\ Len(inds) = Cardinality(Range(inds))
  /\ true_ind \in Range(inds)

\* list(df.definition.values[inds])
DefinitionsAt(df, inds) == [i \in 1..Len(inds) |-> df[WordAt(df, inds[i])]]

\* ([word] + list(set(choice) - {word}))[:count] of _get_words
KeepWords(word, other, count) == Take(<<word>> \o other, count)

\* _get_words: every list it can return for a word and a count on the table df
WordLists(df, word, count) ==
  UNION {UNION {Orders(Range(KeepWords(word, other, count)))
                  : other \in Orders(D \ {word})}
           : D \in DrawnSets(DOMAIN df, count)}

----------------------------------------------------------------------------
(* WordQuiz.                                                               *)

NoQuiz == [status |-> "none", word |-> None, definition |-> None, count |-> 0,
           quiz_words |-> <<>>, quiz_definitions |-> <<>>, inds |-> <<>>]

\* a WordQuiz whose construction raised
FailedQuiz(err) == [NoQuiz EXCEPT !.status = err]

(* WordQuiz.__init__(word, count), word given, on the table df: the quizzes*)
(* it can build.  df.loc[word] raises KeyError for a word that is not in   *)
(* the table.  inds is the index list of _get_definitions, kept to state   *)
(* its assertions; the object itself holds only the texts.                 *)
BuiltQuizzes(df, word, count) ==
  IF word \notin DOMAIN df
    THEN {FailedQuiz("KeyError")}
  ELSE {IF AssertionsHold(inds, TrueInd(df, word))
          THEN [status |-> "ok", word |-> word, definition |-> df[word],
                count |-> count, quiz_words |-> qw,
                quiz_definitions |-> DefinitionsAt(df, inds), inds |-> inds]
          ELSE FailedQuiz("AssertionError")
          : qw \in WordLists(df, word, count), inds \in IndexLists(df, word, count)}

\* get_random_word: np.random.randint(0, 0) raises ValueError on an empty table
RandomWords(df) == DOMAIN df

\* list.index(x): the position of the first x
Index0(seq, x) == (CHOOSE i \in 1..Len(seq) :
                     seq[i] = x /\ \A j \in 1..(i - 1) : seq[j] # x) - 1

Letters == <<"a", "b", "c", "d", "e", "f", "g", "h", "i", "j", "k", "l", "m",
             "n", "o", "p", "q", "r", "s", "t", "u", "v", "w", "x", "y", "z">>

\* a submitted answer: an int or a str
IntSub(n) == [kind |-> "int", n |-> n]
StrSub(s) == [kind |-> "str", s |-> s]

\* the letters numbered from one, not from zero
LetterNumMapGetFromOne(number) ==
  IF number.kind = "str" /\ \E i \in 1..Len(Letters) : Letters[i] = number.s
    THEN [kind |-> "int", n |-> CHOOSE i \in 1..Len(Letters) : Letters[i] = number.s]
    ELSE number

\* the letters looked up whatever their case
LetterNumMapGetAnyCase(number) ==
  IF number.kind = "str" /\ number.s = "A" THEN [kind |-> "int", n |-> 0]
  ELSE IF number.kind = "str" /\ \E i \in 1..Len(Letters) : Letters[i] = number.s
    THEN [kind |-> "int", n |-> (CHOOSE i \in 1..Len(Letters) : Letters[i] = number.s) - 1]
    ELSE number

\* _letter_num_map.get(number, number)
LetterNumMapGet(number) ==
  IF number.kind = "str" /\ \E i \in 1..Len(Letters) : Letters[i] = number.s
    THEN IntSub((CHOOSE i \in 1..Len(Letters) : Letters[i] = number.s) - 1)
    ELSE number

\* ind == index, for an index that is an int
EqualsIndex(ind, index) == ind.kind = "int" /\ ind.n = index

Returned(b) == [status |-> "ok", value |-> b]
Raised(err) == [status |-> err, value |-> FALSE]
NoAnswer == [status |-> "none", value |-> FALSE]

(* WordQuiz._correct_def_index: looks the word up in the table read_words  *)
(* returns now (rd), and finds its definition in quiz_definitions.         *)
CorrectDefIndex(q, rd) ==
  IF rd.status # "ok" THEN Raised(rd.status)
  ELSE IF q.word \notin DOMAIN rd.df THEN Raised("KeyError")
  ELSE IF rd.df[q.word] \notin Range(q.quiz_definitions) THEN Raised("ValueError")
  ELSE [status |-> "ok", value |-> Index0(q.quiz_definitions, rd.df[q.word])]

\* WordQuiz._correct_word_index
CorrectWordIndex(q) ==
  IF q.word \notin Range(q.quiz_words) THEN Raised("ValueError")
  ELSE [status |-> "ok", value |-> Index0(q.quiz_words, q.word)]

\* WordQuiz._get_correct_ind(quiz_on)
GetCorrectInd(q, on, rd) ==
  IF on = "word" THEN CorrectDefIndex(q, rd) ELSE CorrectWordIndex(q)

\* WordQuiz.answer_def(number)
AnswerDef(q, number, rd) ==
  LET index == CorrectDefIndex(q, rd) IN
  IF index.status # "ok" THEN Raised(index.status)
  ELSE Returned(EqualsIndex(LetterNumMapGet(number), index.value))

\* WordQuiz.answer_word(number)
AnswerWord(q, number) ==
  LET index == CorrectWordIndex(q) IN
  IF index.status # "ok" THEN Raised(index.status)
  ELSE Returned(EqualsIndex(LetterNumMapGet(number), index.value))

\* WordQuiz.answer(number, quiz_on)
Answer(q, number, on, rd) ==
  IF on = "word" THEN AnswerDef(q, number, rd) ELSE AnswerWord(q, number)

\* the cache after answer: only the word direction reads the table
CacheAfterAnswer(on, rd) == IF on = "word" THEN rd.cache ELSE word_cache

----------------------------------------------------------------------------
(* The user store.  us is its state: the content of the current-user file, *)
(* the names in _USER_CACHE, and per user the rows of the table            *)
(* quiz_<user>, one row per word at most.                                  *)

Users == {"alice", "bob"}
MaybeUsers == Users \cup {None}

NoRow == [exists |-> FALSE, right |-> 0, wrong |-> 0]
EmptyTable == [w \in Words |-> NoRow]

\* the table discarded_<user>: the number of rows holding each word
NoRows == [w \in Words |-> 0]

UserState == [current |-> current_user, cache |-> USER_CACHE, table |-> quiz_table,
              discarded |-> discarded_table]

\* _get_current_user_name
GetCurrentUserName(us) == us.current

\* _set_current_user(user): None removes the file
SetCurrentUser(us, user) == [us EXCEPT !.current = user]

\* the user None added like any other
AddUserToDbAnyName(us, user, set_current) ==
  LET cached == [us EXCEPT !.cache = @ \cup {user}] IN
  IF set_current THEN SetCurrentUser(cached, user) ELSE cached

\* _add_user_to_db(user, set_current)
AddUserToDb(us, user, set_current) ==
  IF user = None THEN us
  ELSE LET cached == [us EXCEPT !.cache = @ \cup {user}] IN
       IF set_current THEN SetCurrentUser(cached, user) ELSE cached

(* the row of a word after _increment_word_count: a missing row is created *)
(* with the field at 1; a row that exists is read and the attribute of the *)
(* object read is raised, and the object is never saved.                   *)
IncrementedRow(row, field) ==
  IF ~row.exists
    THEN [exists |-> TRUE,
          right |-> IF field = "right" THEN 1 ELSE 0,
          wrong |-> IF field = "wrong" THEN 1 ELSE 0]
    ELSE row

\* _increment_word_count(word, field, user)
IncrementWordCount(us, word, field, user) ==
  LET name == IF user # None THEN user ELSE GetCurrentUserName(us)
      added == AddUserToDb(us, name, TRUE)
  IN IF name = None THEN added
     ELSE [added EXCEPT !.table[name][word] = IncrementedRow(@, field)]

\* User.is_current_user, the getter
IsCurrentUser(us, name) == GetCurrentUserName(us) = name

\* User.is_current_user, the setter
SetIsCurrentUser(us, name, is_current) ==
  LET current == GetCurrentUserName(us)
      set == IF is_current /\ name # None THEN SetCurrentUser(us, name) ELSE us
  IN IF ~is_current /\ current = name THEN SetCurrentUser(set, None) ELSE set

\* User.__init__(name, is_current_user): the name of the User built
UserName(us, name) == IF name # None THEN name ELSE GetCurrentUserName(us)

\* User.__init__(name, is_current_user): the store it leaves
UserInit(us, name, is_current_user) ==
  AddUserToDb(SetIsCurrentUser(us, UserName(us, name), is_current_user), name, TRUE)

\* the decorator _require_user before the method it wraps, for a User named name
RequireUser(us, name) == AddUserToDb(us, name, IsCurrentUser(us, name))

\* User.correctly_answered_word(word) of the User named name
CorrectlyAnsweredWord(us, name, word) ==
  IF name = None THEN us
  ELSE IncrementWordCount(RequireUser(us, name), word, "right", name)

\* User.incorrectly_answered_word(word) of the User named name
IncorrectlyAnsweredWord(us, name, word) ==
  IF name = None THEN us
  ELSE IncrementWordCount(RequireUser(us, name), word, "wrong", name)

\* the columns right and wrong of a word in User.get_quiz_df: the default
\* table of zeros plus the rows of the user's table
ScoreboardEntry(us, name, word) ==
  <<us.table[name][word].right, us.table[name][word].wrong>>

\* _delete_table(table): table.delete() builds a query that is never executed
DeleteTable(rows) == rows

\* User.delete_user() of the User named name
DeleteUser(us, name) ==
  IF name = None THEN us
  ELSE LET req == RequireUser(us, name)
           popped == [req EXCEPT !.cache = @ \ {name},
                                 !.table[name] = DeleteTable(@),
                                 !.discarded[name] = DeleteTable(@)]
       IN IF name = GetCurrentUserName(popped) THEN SetCurrentUser(popped, None)
          ELSE popped

\* the table holding the new word alone
InsertedRowsReplacing(rows, word) == [w \in DOMAIN rows |-> IF w = word THEN 1 ELSE 0]

\* table.insert_many([{'word': word}]).execute()
InsertedRows(rows, word) == [rows EXCEPT ![word] = @ + 1]

\* User.discard_word(word) of the User named name
DiscardWord(us, name, word) ==
  IF name = None THEN us
  ELSE [RequireUser(us, name) EXCEPT !.discarded[name] = InsertedRows(@, word)]

\* User.get_discarded_words() of the User named name
GetDiscardedWords(us, name) == {w \in Words : us.discarded[name][w] > 0}

\* the rows of the user's table alone, without the default table
GetQuizDfRowsOnly(us, name, df) ==
  [w \in {v \in Words : us.table[name][v].exists}
     |-> <<us.table[name][w].right, us.table[name][w].wrong>>]

(* User.get_quiz_df() of the User named name, on the word table df: the    *)
(* default table of zeros over the words of df, plus the rows of the       *)
(* user's table with fill_value=0, over the union of their words.          *)
GetQuizDf(us, name, df) ==
  [w \in DOMAIN df \cup {v \in Words : us.table[name][v].exists}
     |-> <<us.table[name][w].right, us.table[name][w].wrong>>]

\* calls after one more call for a user and a word with a field
Called(c, name, word, field) == [c EXCEPT ![name][word][field] = @ + 1]

\* the variables of the user store take the values of us
SetUserState(us) ==
  /\ current_user' = us.current
  /\ USER_CACHE' = us.cache
  /\ quiz_table' = us.table
  /\ discarded_table' = us.discarded

----------------------------------------------------------------------------
(* The state before any QuizRun is constructed.                            *)

NoCalls == [u \in Users |-> [w \in Words |-> [right |-> 0, wrong |-> 0]]]

NoCall == [op |-> "none", choice |-> 0, correct |-> FALSE, credited |-> FALSE,
           missed_before |-> FALSE]

\* read_words was not called since the file was last written
NoRead == [status |-> "none", df |-> EmptyDf, reads |-> 0]

\* no operation on the user store yet
\* set tells whether _set_current_user was called from outside the store,
\* expected is the name it was last called with, None once the user of that
\* name was deleted, and current is what _get_current_user_name last returned
NoUserOp == [op |-> "none", name |-> None, status |-> "ok", n |-> 0, board |-> <<>>,
             words |-> {}, discards |-> [u \in Users |-> {}],
             set |-> FALSE, expected |-> None, current |-> None]

\* no CardRun was constructed
NoCardRun == [status |-> "none", words |-> <<>>, word |-> None, card_side |-> "word",
              side |-> "word", has_exited |-> FALSE, debug |-> FALSE]

NoCardObs == [deck |-> {}, discarded |-> <<>>, key |-> "none", keys |-> 0,
              done_by |-> "none", start_on |-> "word", flipped_to |-> None]

\* no Card was built
NoCard == [status |-> "none", word |-> None, definition |-> None,
           formated_definition |-> None, side |-> "word", displayed_text |-> None,
           fliperator |-> 0, siderator |-> 0]

\* no QuizRun, no CardRun and no Card was constructed
InitNoRun ==
  /\ started = FALSE
  /\ remaining_questions = 0
  /\ user_name = None
  /\ quiz_on = "word"
  /\ def_count = 0
  /\ answered_correctly = TRUE
  /\ quiz_on_cycle = 0
  /\ has_exited = FALSE
  /\ debug = FALSE
  /\ shown_on = "word"
  /\ buttons = 0
  /\ question_count = 0
  /\ n_submits = 0
  /\ n_correct = 0
  /\ missed = FALSE
  /\ exited_by = "none"
  /\ last = NoCall
  /\ calls = NoCalls
  /\ last_read = NoRead
  /\ user_op = NoUserOp
  /\ card_run = NoCardRun
  /\ card_obs = NoCardObs
  /\ card = NoCard
  /\ card_shown = <<>>

----------------------------------------------------------------------------
(* The quiz engine on its own: one WordQuiz is built, for a given or a     *)
(* random word, and one answer is given to it, on a word file that does    *)
(* not change.                                                             *)

\* what answer() is called with: indices in and out of range, letters, other strings
Submissions ==
  {IntSub(n) : n \in -1..MaxCount}
    \cup {StrSub(Letters[i]) : i \in 1..(MaxCount + 1)}
    \cup {StrSub(s) : s \in {"z", "A", "ab", ""}}

Directions == {"word", "definition"}

\* the word file: absent, or holding a table
Files == {[exists |-> FALSE, df |-> EmptyDf]} \cup {[exists |-> TRUE, df |-> d] : d \in Stores}

InitQuiz ==
  /\ file \in Files
  /\ mtime = 0
  /\ word_cache = EmptyCache
  /\ clock = 0
  /\ quiz = NoQuiz
  /\ last_answer = [number |-> IntSub(0), on |-> "word", result |-> NoAnswer]
  /\ current_user = None
  /\ USER_CACHE = {}
  /\ quiz_table = [u \in Users |-> EmptyTable]
  /\ discarded_table = [u \in Users |-> NoRows]
  /\ InitNoRun

\* WordQuiz(word, count)
NewWordQuiz(word, count) ==
  LET rd == ReadNow IN
  /\ quiz.status = "none"
  /\ word_cache' = rd.cache
  /\ IF rd.status # "ok"
       THEN quiz' = FailedQuiz(rd.status)
       ELSE quiz' \in BuiltQuizzes(rd.df, word, count)
  /\ last_answer' = [last_answer EXCEPT !.result = NoAnswer]
  /\ UNCHANGED <<file, mtime, clock, userVars, runVars, obsVars, sideVars>>

\* WordQuiz(count=count): the word is get_random_word()
NewRandomQuiz(count) ==
  LET rd == ReadNow IN
  /\ quiz.status = "none"
  /\ word_cache' = rd.cache
  /\ IF rd.status # "ok"
       THEN quiz' = FailedQuiz(rd.status)
       ELSE IF RandomWords(rd.df) = {}
         THEN quiz' = FailedQuiz("ValueError")
         ELSE \E word \in RandomWords(rd.df) : quiz' \in BuiltQuizzes(rd.df, word, count)
  /\ last_answer' = [last_answer EXCEPT !.result = NoAnswer]
  /\ UNCHANGED <<file, mtime, clock, userVars, runVars, obsVars, sideVars>>

\* quiz.answer(number, quiz_on) on the quiz last built
AnswerQuiz(number, on) ==
  LET rd == ReadNow IN
  /\ quiz.status = "ok"
  /\ last_answer' = [number |-> number, on |-> on, result |-> Answer(quiz, number, on, rd)]
  /\ word_cache' = CacheAfterAnswer(on, rd)
  /\ UNCHANGED <<file, mtime, clock, quiz, userVars, runVars, obsVars, sideVars>>

\* time passes
Tick ==
  /\ clock < MaxClock
  /\ clock' = clock + 1
  /\ UNCHANGED <<file, mtime, word_cache, quizVars, userVars, runVars, obsVars,
                 sideVars>>

\* the one answer given to the quiz
FirstAnswer(number, on) ==
  /\ last_answer.result.status = "none"
  /\ AnswerQuiz(number, on)

NextQuiz ==
  \/ \E word \in Words, count \in Counts : NewWordQuiz(word, count)
  \/ \E count \in Counts : NewRandomQuiz(count)
  \/ \E number \in Submissions, on \in Directions : FirstAnswer(number, on)

SpecQuiz == InitQuiz /\ [][NextQuiz]_vars

----------------------------------------------------------------------------
(* QuizRun.                                                                *)

\* largest question_count a run is started with
MaxQuestions == 3
\* largest number of calls of item_chosen in a run
MaxSubmits == 3

\* _quiz_on, the tuple _quiz_on_cycle cycles over
QuizOnTuple == <<"word", "definition">>

\* next(self._quiz_on_cycle): the value, and the position the cycle moves to
CycleNext(pos) == [value |-> QuizOnTuple[pos + 1], pos |-> (pos + 1) % 2]

\* the next value of the cycle taken whatever the direction is
FlipModeNoSkip(on, pos) == CycleNext(pos)

\* the key f of _handle_input: the direction and the cycle it leaves
FlipMode(on, pos) ==
  LET first == CycleNext(pos) IN
  IF first.value = on THEN CycleNext(first.pos) ELSE first

\* the choices of _get_title_and_choices, one button each in _create_display
Choices(q, on) == IF on = "word" THEN q.quiz_definitions ELSE q.quiz_words

\* every correct answer credited, missed or not
CreditsRightAlways(is_correct, answered) == is_correct

\* item_chosen: whether it calls correctly_answered_word
CreditsRight(is_correct, answered) == is_correct /\ answered

\* the run ended one question late
RunIsOverLate(remaining) == remaining < -1

\* the result recorded for the word of the quiz built in the same call
RecordedWordOfNext(asked, next) == next.word

\* item_chosen: self.quiz.word as the User is called, asked being the quiz
\* answered and next the quiz the call leaves
RecordedWord(asked, next) == asked.word

\* item_chosen: whether it calls exit_program
RunIsOver(remaining) == remaining < 1

\* _remaining_questions after _get_new_quiz
AfterNewQuiz(remaining) == remaining - 1

\* the place of a definition text in AllDefs
DefRank(d) == CHOOSE i \in 1..Len(AllDefs) : AllDefs[i] = d

\* definition texts are interchangeable: a table whose texts are numbered in
\* the order of their first use stands for every table it can be renamed to
FirstUseOrder(df) ==
  \A w \in DOMAIN df : \A i \in 1..(DefRank(df[w]) - 1) :
    \E v \in DOMAIN df : Rank(v) < Rank(w) /\ df[v] = AllDefs[i]

\* the word files a run is started on
RunFiles == {f \in Files : FirstUseOrder(f.df)}

\* the user a run is started for: none, or one name, which may or may not be
\* the current user
RunUsers == {None, "alice"}

Init ==
  /\ file \in RunFiles
  /\ mtime = 0
  /\ word_cache = EmptyCache
  /\ clock = 0
  /\ quiz = NoQuiz
  /\ last_answer = [number |-> IntSub(0), on |-> "word", result |-> NoAnswer]
  /\ current_user \in MaybeUsers
  /\ USER_CACHE = {}
  /\ quiz_table = [u \in Users |-> EmptyTable]
  /\ discarded_table = [u \in Users |-> NoRows]
  /\ InitNoRun

(* QuizRun(question_count, user, choice_count, quiz_on), and _debug set on *)
(* the object as the tests do.  prolix.User(user) runs first; WordQuiz()   *)
(* raises on a store that cannot be read or is empty, and no run exists.   *)
StartQuizRun(count, user, choice_count, on, dbg) ==
  LET rd == ReadNow IN
  /\ ~started
  /\ quiz.status = "none"
  /\ SetUserState(UserInit(UserState, user, FALSE))
  /\ word_cache' = rd.cache
  /\ IF rd.status = "ok" /\ RandomWords(rd.df) # {}
       THEN /\ \E word \in RandomWords(rd.df) :
                 quiz' \in BuiltQuizzes(rd.df, word, choice_count)
            /\ started' = TRUE
            /\ remaining_questions' = AfterNewQuiz(count)
            /\ user_name' = UserName(UserState, user)
            /\ quiz_on' = on
            /\ def_count' = choice_count
            /\ debug' = dbg
            /\ shown_on' = on
            /\ buttons' = Len(Choices(quiz', on))
            /\ question_count' = count
            /\ UNCHANGED <<answered_correctly, quiz_on_cycle, has_exited,
                           n_submits, n_correct, missed, exited_by, last, calls>>
       ELSE /\ quiz' = FailedQuiz(IF rd.status = "ok" THEN "ValueError" ELSE rd.status)
            /\ UNCHANGED <<runVars, obsVars>>
  /\ UNCHANGED <<file, mtime, clock, last_answer, sideVars>>

(* item_chosen(button, choice): a click on the button of a choice.  A      *)
(* correct answer credits the word if the question was never missed and    *)
(* builds the next quiz; an incorrect one marks the question missed and    *)
(* records it.  exit_program raises ExitMainLoop unless _debug is set, and *)
(* _create_display then does not run.                                      *)
ItemChosen(choice) ==
  LET rd == ReadNow
      result == Answer(quiz, IntSub(choice), quiz_on, rd)
      is_correct == result.value
      credited == CreditsRight(is_correct, answered_correctly)
      remaining == IF is_correct THEN AfterNewQuiz(remaining_questions)
                   ELSE remaining_questions
      over == RunIsOver(remaining)
      word == RecordedWord(quiz, quiz')
      us == IF is_correct
              THEN IF credited
                     THEN CorrectlyAnsweredWord(UserState, user_name, word)
                     ELSE UserState
              ELSE IncorrectlyAnsweredWord(UserState, user_name, word)
  IN
  /\ started
  /\ quiz.status = "ok"
  /\ ~has_exited \/ debug
  /\ n_submits < MaxSubmits
  /\ choice \in 0..(buttons - 1)
  /\ n_submits' = n_submits + 1
  /\ IF result.status # "ok"
       THEN /\ word_cache' = CacheAfterAnswer(quiz_on, rd)
            /\ last' = [NoCall EXCEPT !.op = result.status, !.choice = choice]
            /\ UNCHANGED <<quiz, userVars, runVars, question_count, n_correct,
                           missed, exited_by, calls>>
       ELSE /\ last' = [op |-> "item_chosen", choice |-> choice,
                        correct |-> is_correct, credited |-> credited,
                        missed_before |-> missed]
            /\ IF is_correct
                 THEN LET rd2 == read_words(CacheAfterAnswer(quiz_on, rd),
                                            file, mtime, clock) IN
                      /\ word_cache' = rd2.cache
                      /\ \E new_word \in RandomWords(rd2.df) :
                           quiz' \in BuiltQuizzes(rd2.df, new_word, def_count)
                      /\ answered_correctly' = TRUE
                      /\ missed' = FALSE
                 ELSE /\ word_cache' = CacheAfterAnswer(quiz_on, rd)
                      /\ quiz' = quiz
                      /\ answered_correctly' = FALSE
                      /\ missed' = TRUE
            /\ SetUserState(us)
            /\ remaining_questions' = remaining
            /\ n_correct' = IF is_correct /\ ~has_exited THEN n_correct + 1
                            ELSE n_correct
            /\ has_exited' = (has_exited \/ over)
            /\ exited_by' = IF over /\ ~has_exited
                              THEN IF is_correct THEN "correct" ELSE "incorrect"
                              ELSE exited_by
            /\ IF over /\ ~debug
                 THEN UNCHANGED <<shown_on, buttons>>
                 ELSE /\ shown_on' = quiz_on
                      /\ buttons' = Len(Choices(quiz', quiz_on))
            /\ calls' = IF user_name = None \/ (is_correct /\ ~credited) THEN calls
                         ELSE Called(calls, user_name, word,
                                     IF is_correct THEN "right" ELSE "wrong")
            /\ UNCHANGED <<started, user_name, quiz_on, def_count, quiz_on_cycle,
                           debug, question_count>>
  /\ UNCHANGED <<file, mtime, clock, last_answer, sideVars>>

\* the keys of _handle_input that do more than move the focus
Keys == {"q", "Q", "f"}

\* the capital Q not taken for a quit
IsQuitLowerOnly(key) == key = "q"

\* _handle_input of QuizRun and of CardRun: key in {'q', 'Q'}
IsQuit(key) == key \in {"q", "Q"}

(* _handle_input(key): q and Q call exit_program, f flips the direction    *)
(* and draws nothing.                                                      *)
HandleInput(key) ==
  /\ started
  /\ ~has_exited \/ debug
  /\ IF IsQuit(key)
       THEN /\ has_exited' = TRUE
            /\ exited_by' = IF has_exited THEN exited_by ELSE "quit"
            /\ UNCHANGED <<quiz_on, quiz_on_cycle>>
       ELSE /\ quiz_on' = FlipMode(quiz_on, quiz_on_cycle).value
            /\ quiz_on_cycle' = FlipMode(quiz_on, quiz_on_cycle).pos
            /\ UNCHANGED <<has_exited, exited_by>>
  /\ UNCHANGED <<storeVars, quizVars, userVars, sideVars, started, remaining_questions,
                 user_name, def_count, answered_correctly, debug, shown_on, buttons,
                 question_count, n_submits, n_correct, missed, last, calls>>

Next ==
  \/ \E count \in 1..MaxQuestions, user \in RunUsers, choice_count \in Counts,
        on \in Directions, dbg \in BOOLEAN :
       StartQuizRun(count, user, choice_count, on, dbg)
  \/ \E choice \in 0..(MaxCount - 1) : ItemChosen(choice)
  \/ \E key \in Keys : HandleInput(key)

Spec == Init /\ [][Next]_vars

----------------------------------------------------------------------------
(* The user store on its own: results are recorded for users by name or    *)
(* for the current user.                                                   *)

\* largest number of calls of _increment_word_count
MaxCalls == 3

Fields == {"right", "wrong"}

\* the calls made so far
TotalCalls ==
  LET RECURSIVE Sum(_)
      Sum(S) == IF S = {} THEN 0
                ELSE LET p == CHOOSE p \in S : TRUE IN
                     calls[p[1]][p[2]].right + calls[p[1]][p[2]].wrong + Sum(S \ {p})
  IN Sum(Users \X Words)

InitUser ==
  /\ file \in RunFiles
  /\ mtime = 0
  /\ word_cache = EmptyCache
  /\ clock = 0
  /\ quiz = NoQuiz
  /\ last_answer = [number |-> IntSub(0), on |-> "word", result |-> NoAnswer]
  /\ current_user \in MaybeUsers
  /\ USER_CACHE = {}
  /\ quiz_table = [u \in Users |-> EmptyTable]
  /\ discarded_table = [u \in Users |-> NoRows]
  /\ InitNoRun

\* _increment_word_count(word, field, user=user)
RecordResult(user, word, field) ==
  LET name == IF user # None THEN user ELSE GetCurrentUserName(UserState) IN
  /\ TotalCalls < MaxCalls
  /\ user_op.n < MaxCalls
  /\ SetUserState(IncrementWordCount(UserState, word, field, user))
  /\ calls' = IF name = None THEN calls ELSE Called(calls, name, word, field)
  /\ user_op' = [user_op EXCEPT !.op = "record_result", !.name = name,
                                !.status = "ok", !.n = @ + 1]
  /\ UNCHANGED <<storeVars, quizVars, runVars, question_count, n_submits,
                 n_correct, missed, exited_by, last, last_read, cardVars>>

\* User(name).discard_word(word)
DiscardWordOp(name, word) ==
  LET n == UserName(UserState, name) IN
  /\ user_op.n < MaxCalls
  /\ SetUserState(DiscardWord(UserInit(UserState, name, FALSE), n, word))
  /\ user_op' = [user_op EXCEPT !.op = "discard_word", !.name = n, !.status = "ok",
                                !.n = @ + 1,
                                !.discards = IF n = None THEN @
                                             ELSE [@ EXCEPT ![n] = @ \cup {word}]]
  /\ UNCHANGED <<storeVars, quizVars, runVars, obsVars, last_read, cardVars>>

\* User(name).get_discarded_words()
GetDiscardedWordsOp(name) ==
  LET n == UserName(UserState, name)
      us == IF n = None THEN UserInit(UserState, name, FALSE)
            ELSE RequireUser(UserInit(UserState, name, FALSE), n)
  IN
  /\ user_op.n < MaxCalls
  /\ SetUserState(us)
  /\ user_op' = [user_op EXCEPT !.op = "get_discarded_words", !.name = n,
                                !.status = "ok", !.n = @ + 1,
                                !.words = IF n = None THEN {}
                                          ELSE GetDiscardedWords(us, n)]
  /\ UNCHANGED <<storeVars, quizVars, runVars, obsVars, last_read, cardVars>>

\* User(name).get_quiz_df(): _default_quiz_table reads the word table
GetQuizDfOp(name) ==
  LET n == UserName(UserState, name)
      us == IF n = None THEN UserInit(UserState, name, FALSE)
            ELSE RequireUser(UserInit(UserState, name, FALSE), n)
      rd == ReadNow
  IN
  /\ user_op.n < MaxCalls
  /\ SetUserState(us)
  /\ word_cache' = IF n = None THEN word_cache ELSE rd.cache
  /\ user_op' = [user_op EXCEPT !.op = "get_quiz_df", !.name = n, !.n = @ + 1,
                                !.status = IF n = None THEN "ok" ELSE rd.status,
                                !.board = IF n = None \/ rd.status # "ok" THEN <<>>
                                          ELSE GetQuizDf(us, n, rd.df)]
  /\ UNCHANGED <<file, mtime, clock, quizVars, runVars, obsVars, last_read,
                 cardVars>>

NextUser ==
  \/ \E user \in MaybeUsers, word \in Words, field \in Fields :
       RecordResult(user, word, field)
  \/ \E name \in MaybeUsers, word \in Words : DiscardWordOp(name, word)
  \/ \E name \in MaybeUsers : GetDiscardedWordsOp(name)
  \/ \E name \in MaybeUsers : GetQuizDfOp(name)

SpecUser == InitUser /\ [][NextUser]_vars

----------------------------------------------------------------------------
(* The user store with users created and deleted.                          *)

\* User(name, is_current_user)
CreateUser(name, is_current_user) ==
  /\ user_op.n < MaxCalls
  /\ SetUserState(UserInit(UserState, name, is_current_user))
  /\ user_op' = [user_op EXCEPT !.op = "create_user",
                                !.name = UserName(UserState, name),
                                !.status = "ok", !.n = @ + 1]
  /\ UNCHANGED <<storeVars, quizVars, runVars, obsVars, last_read, cardVars>>

\* User(name).delete_user()
DeleteUserOp(name) ==
  LET n == UserName(UserState, name) IN
  /\ user_op.n < MaxCalls
  /\ SetUserState(DeleteUser(UserInit(UserState, name, FALSE), n))
  /\ user_op' = [user_op EXCEPT !.op = "delete_user", !.name = n, !.status = "ok",
                                !.n = @ + 1,
                                !.expected = IF n # None /\ n = @ THEN None ELSE @]
  /\ UNCHANGED <<storeVars, quizVars, runVars, obsVars, last_read, cardVars>>

\* _set_current_user(user)
SetCurrentOp(user) ==
  /\ user_op.n < MaxCalls
  /\ SetUserState(SetCurrentUser(UserState, user))
  /\ user_op' = [user_op EXCEPT !.op = "set_current", !.name = user, !.status = "ok",
                                !.n = @ + 1, !.set = TRUE, !.expected = user]
  /\ UNCHANGED <<storeVars, quizVars, runVars, obsVars, last_read, cardVars>>

\* _get_current_user_name()
GetCurrentOp ==
  /\ user_op.n < MaxCalls
  /\ user_op' = [user_op EXCEPT !.op = "get_current", !.name = None, !.status = "ok",
                                !.n = @ + 1,
                                !.current = GetCurrentUserName(UserState)]
  /\ UNCHANGED <<storeVars, quizVars, userVars, runVars, obsVars, last_read, cardVars>>

NextAdmin ==
  \/ \E name \in MaybeUsers, is_current_user \in BOOLEAN :
       CreateUser(name, is_current_user)
  \/ \E name \in MaybeUsers : DeleteUserOp(name)
  \/ \E user \in MaybeUsers, word \in Words, field \in Fields :
       RecordResult(user, word, field)
  \/ \E name \in MaybeUsers, word \in Words : DiscardWordOp(name, word)
  \/ \E user \in MaybeUsers : SetCurrentOp(user)
  \/ GetCurrentOp

SpecAdmin == InitUser /\ [][NextAdmin]_vars

----------------------------------------------------------------------------
(* The quiz engine on a word file that changes: a WordQuiz is built and    *)
(* answered while tables are committed to the file and time passes.        *)

\* the table _commit_word_db writes: the old rows win over the new ones
\* (concat, then drop the duplicated index values keeping the first)
Merged(old, new) ==
  [w \in DOMAIN old \cup DOMAIN new |-> IF w \in DOMAIN old THEN old[w] ELSE new[w]]

(* _commit_word_db(df, append): with append the table is read first, and   *)
(* what read_words raises leaves the file as it is.  The file written      *)
(* carries the time of the write.                                          *)
CommitWordDb(df, append) ==
  LET rd == ReadNow IN
  /\ IF append
       THEN /\ word_cache' = rd.cache
            /\ IF rd.status = "ok"
                 THEN /\ file' = [exists |-> TRUE, df |-> Merged(rd.df, df)]
                      /\ mtime' = clock
                 ELSE UNCHANGED <<file, mtime>>
       ELSE /\ file' = [exists |-> TRUE, df |-> df]
            /\ mtime' = clock
            /\ UNCHANGED word_cache
  /\ last_read' = NoRead
  /\ UNCHANGED <<clock, quizVars, userVars, runVars, obsVars, user_op, cardVars>>

\* what answer() is called with while the file changes
ReloadSubmissions == {IntSub(n) : n \in 0..(MaxCount - 1)}

InitReload ==
  /\ file \in {f \in RunFiles : f.exists}
  /\ mtime = 0
  /\ word_cache = EmptyCache
  /\ clock = 0
  /\ quiz = NoQuiz
  /\ last_answer = [number |-> IntSub(0), on |-> "word", result |-> NoAnswer]
  /\ current_user = None
  /\ USER_CACHE = {}
  /\ quiz_table = [u \in Users |-> EmptyTable]
  /\ discarded_table = [u \in Users |-> NoRows]
  /\ InitNoRun

NextReload ==
  \/ \E word \in Words, count \in Counts : NewWordQuiz(word, count)
  \/ \E number \in ReloadSubmissions, on \in Directions : AnswerQuiz(number, on)
  \/ \E df \in Stores, append \in BOOLEAN : CommitWordDb(df, append)
  \/ Tick

SpecReload == InitReload /\ [][NextReload]_vars

----------------------------------------------------------------------------
(* Card and CardRun: a flash card run.  The card is its word and its side; *)
(* the text displayed is the word on side word and the definition on side  *)
(* definition (fliperator and siderator move together).                    *)

\* largest number of flips of a card built on its own
MaxFlips == 3

\* the texts _format_defintion makes of the definition texts: one text each,
\* none of them a word
AllFormatted == <<"f1", "f2", "f3", "f4">>

\* _format_defintion(definition)
FormatDefinition(d) == AllFormatted[DefRank(d)]

\* cycle([self.formated_definition, self.word])
Fliperator(c) == <<c.formated_definition, c.word>>

\* the sides cycled from word on
SideratorWordFirst == <<"word", "definition">>

\* cycle(['definition', 'word'])
Siderator == <<"definition", "word">>

\* a Card whose construction raised
FailedCard(err) == [NoCard EXCEPT !.status = err]

\* the row at the place np.argmax gives taken for a word that is not in the table
BuiltCardFirstRow(df, word) ==
  IF df = EmptyDf
    THEN FailedCard("KeyError")
    ELSE LET row == WordAt(df, TrueInd(df, word)) IN
         [status |-> "ok", word |-> word, definition |-> df[row],
          formated_definition |-> FormatDefinition(df[row]), side |-> "word",
          displayed_text |-> word, fliperator |-> 0, siderator |-> 0]

(* Card.__init__(word), word given, on the table df: df.loc[word] raises   *)
(* KeyError for a word that is not in the table.  The card shows its word. *)
BuiltCard(df, word) ==
  IF word \notin DOMAIN df
    THEN FailedCard("KeyError")
    ELSE [status |-> "ok", word |-> word, definition |-> df[word],
          formated_definition |-> FormatDefinition(df[word]), side |-> "word",
          displayed_text |-> word, fliperator |-> 0, siderator |-> 0]

\* Card.flip: both cycles give their next value
CardFlip(c) ==
  [c EXCEPT !.displayed_text = Fliperator(c)[c.fliperator + 1],
            !.fliperator = (@ + 1) % 2,
            !.side = Siderator[c.siderator + 1],
            !.siderator = (@ + 1) % 2]

\* the side and the text a card shows
Face(c) == <<c.side, c.displayed_text>>

\* Card(word)
NewCard(word) ==
  LET rd == ReadNow
      built == IF rd.status # "ok" THEN FailedCard(rd.status)
               ELSE BuiltCard(rd.df, word)
  IN
  /\ card.status = "none"
  /\ word_cache' = rd.cache
  /\ card' = built
  /\ card_shown' = IF built.status = "ok" THEN <<Face(built)>> ELSE <<>>
  /\ UNCHANGED <<file, mtime, clock, quizVars, userVars, runVars, obsVars,
                 last_read, user_op, card_run, card_obs>>

\* Card(): the word is get_random_word()
NewRandomCard ==
  LET rd == ReadNow IN
  /\ card.status = "none"
  /\ word_cache' = rd.cache
  /\ IF rd.status # "ok"
       THEN card' = FailedCard(rd.status)
       ELSE IF RandomWords(rd.df) = {}
         THEN card' = FailedCard("ValueError")
         ELSE \E word \in RandomWords(rd.df) : card' = BuiltCard(rd.df, word)
  /\ card_shown' = IF card'.status = "ok" THEN <<Face(card')>> ELSE <<>>
  /\ UNCHANGED <<file, mtime, clock, quizVars, userVars, runVars, obsVars,
                 last_read, user_op, card_run, card_obs>>

\* card.flip() on the card built
FlipCard ==
  /\ card.status = "ok"
  /\ Len(card_shown) <= MaxFlips
  /\ card' = CardFlip(card)
  /\ card_shown' = Append(card_shown, Face(CardFlip(card)))
  /\ UNCHANGED <<storeVars, quizVars, userVars, runVars, obsVars, last_read, user_op,
                 card_run, card_obs>>

(* The quiz engine and the card on their own: a WordQuiz and a Card are    *)
(* built, each for a given or a random word, the quiz is given one answer  *)
(* and the card is flipped, on a word file that does not change.           *)
NextEngine ==
  \/ NextQuiz
  \/ \E word \in Words : NewCard(word)
  \/ NewRandomCard
  \/ FlipCard

SpecEngine == InitQuiz /\ [][NextEngine]_vars

\* largest number of keys a flash card run handles
MaxKeys == 4

\* what CardRun is given as user: None, a name, or a User object
CardUsers == {"None", "str", "User"}

\* ProlixUrWid._header reads self._user.name: only a User object has one
Header(user) == IF user = "User" THEN "ok" ELSE "AttributeError"

\* list(read_words().index.values): the words in index order
IndexValues(df) == [p \in 1..DfLen(df) |-> WordAt(df, p - 1)]

\* list.remove(x): the list without its first x
ListRemove(seq, x) ==
  LET i == Index0(seq, x) + 1 IN
  SubSeq(seq, 1, i - 1) \o SubSeq(seq, i + 1, Len(seq))

\* Card.flip: the side after it
Flip(card_side) == IF card_side = "word" THEN "definition" ELSE "word"

\* a card drawn never flipped
NewCardSideWord(side) == "word"

\* the side of a card just drawn: a new Card is on side word, and draw_card
\* flips it when the run is on side definition
NewCardSide(side) == IF side = "definition" THEN Flip("word") ELSE "word"

\* the pile counted as used up one card early
DeckIsNearlyEmpty(words) == Len(words) <= 1

\* draw_card: not self.words
DeckIsEmpty(words) == words = <<>>

\* the first word of the pile removed, whatever card is shown
WordsAfterKeyDropFirst(key, words, word) ==
  IF key = "left" THEN Tail(words) ELSE words

\* a card removed from the pile when it is kept as well
WordsAfterKeyKeepRemoves(key, words, word) ==
  IF key \in {"left", "right"} THEN ListRemove(words, word) ELSE words

\* _handle_input: self.words after the key, before a card is drawn
WordsAfterKey(key, words, word) ==
  IF key = "left" THEN ListRemove(words, word) ELSE words

(* draw_card on the CardRun cr: with no word left it calls exit_program    *)
(* and keeps the card; else any word of the pile becomes the card.         *)
DrawCard(cr) ==
  IF DeckIsEmpty(cr.words)
    THEN {[cr EXCEPT !.has_exited = TRUE]}
    ELSE {[cr EXCEPT !.word = w, !.card_side = NewCardSide(cr.side)]
            : w \in Range(cr.words)}

(* CardRun(start_on, user), and _debug set on the object as the tests do.  *)
(* With no word draw_card calls exit_program, which raises ExitMainLoop as *)
(* _debug is not set yet; _create_display builds the header, which raises  *)
(* AttributeError unless user is a User object.  A constructor that raises *)
(* leaves no run.                                                          *)
StartCardRun(start_on, user, dbg) ==
  LET rd == ReadNow
      words == IndexValues(rd.df)
      cr == [status |-> "ok", words |-> words, word |-> None, card_side |-> "word",
             side |-> start_on, has_exited |-> FALSE, debug |-> dbg]
  IN
  /\ card_run.status = "none"
  /\ word_cache' = rd.cache
  /\ IF rd.status # "ok"
       THEN /\ card_run' = [NoCardRun EXCEPT !.status = rd.status]
            /\ UNCHANGED card_obs
       ELSE IF DeckIsEmpty(words)
         THEN /\ card_run' = [NoCardRun EXCEPT !.status = "ExitMainLoop"]
              /\ UNCHANGED card_obs
       ELSE IF Header(user) # "ok"
         THEN /\ card_run' = [NoCardRun EXCEPT !.status = Header(user)]
              /\ UNCHANGED card_obs
       ELSE /\ card_run' \in DrawCard(cr)
            /\ card_obs' = [deck |-> Range(words), discarded |-> <<>>,
                            key |-> "start", keys |-> 0, done_by |-> "none",
                            start_on |-> start_on, flipped_to |-> None]
  /\ UNCHANGED <<file, mtime, clock, quizVars, userVars, runVars, obsVars,
                 last_read, user_op, card, card_shown>>

\* the keys of CardRun._handle_input; a mouse press does what f does
CardKeys == {"q", "Q", "right", "left", "f"}

(* CardRun._handle_input(key).  exit_program raises ExitMainLoop unless    *)
(* _debug is set, which ends the loop that calls the handler.  A discard   *)
(* of a card that is no longer in the pile raises ValueError.              *)
HandleCardInput(key) ==
  LET words == WordsAfterKey(key, card_run.words, card_run.word)
      removed == [card_run EXCEPT !.words = words]
      counted == [card_obs EXCEPT !.keys = @ + 1, !.key = key]
  IN
  /\ card_run.status = "ok"
  /\ ~card_run.has_exited \/ card_run.debug
  /\ card_obs.keys < MaxKeys
  /\ IF IsQuit(key)
       THEN /\ card_run' = [card_run EXCEPT !.has_exited = TRUE]
            /\ card_obs' = [counted EXCEPT !.done_by =
                              IF card_run.has_exited THEN @ ELSE "quit"]
     ELSE IF key = "left" /\ card_run.word \notin Range(card_run.words)
       THEN /\ card_obs' = [counted EXCEPT !.key = "ValueError"]
            /\ UNCHANGED card_run
     ELSE IF key \in {"left", "right"}
       THEN /\ card_run' \in DrawCard(removed)
            /\ card_obs' = [counted EXCEPT
                              !.discarded = IF key = "left"
                                              THEN Append(@, card_run.word) ELSE @,
                              !.done_by = IF card_run'.has_exited /\ ~card_run.has_exited
                                            THEN key ELSE @]
     ELSE /\ card_run' = [card_run EXCEPT !.card_side = Flip(@),
                                          !.side = Flip(card_run.card_side)]
          /\ card_obs' = [counted EXCEPT !.flipped_to = Flip(card_run.card_side)]
  /\ UNCHANGED <<storeVars, quizVars, userVars, runVars, obsVars, last_read, user_op,
                 card, card_shown>>

InitCards ==
  /\ file \in RunFiles
  /\ mtime = 0
  /\ word_cache = EmptyCache
  /\ clock = 0
  /\ quiz = NoQuiz
  /\ last_answer = [number |-> IntSub(0), on |-> "word", result |-> NoAnswer]
  /\ current_user \in MaybeUsers
  /\ USER_CACHE = {}
  /\ quiz_table = [u \in Users |-> EmptyTable]
  /\ discarded_table = [u \in Users |-> NoRows]
  /\ InitNoRun

NextCards ==
  \/ \E start_on \in Directions, user \in CardUsers, dbg \in BOOLEAN :
       StartCardRun(start_on, user, dbg)
  \/ \E key \in CardKeys : HandleCardInput(key)

SpecCards == InitCards /\ [][NextCards]_vars

----------------------------------------------------------------------------
(* One session at a time, as the program runs them: a quiz run or a flash  *)
(* card run is constructed and driven to its end.                          *)

NextSession ==
  \/ card_run.status = "none" /\ Next
  \/ ~started /\ quiz.status = "none" /\ NextCards

SpecSession == Init /\ [][NextSession]_vars

----------------------------------------------------------------------------
(* The word store on its own: the file is read and written while time      *)
(* passes.  A write made in the same tick of the clock as a load carries   *)
(* the time of the load: st_mtime is no finer than time.time().            *)

\* read_words()
ReadWords ==
  LET rd == ReadNow IN
  /\ word_cache' = rd.cache
  /\ last_read' = [status |-> rd.status, df |-> rd.df, reads |-> rd.reads]
  /\ UNCHANGED <<file, mtime, clock, quizVars, userVars, runVars, obsVars,
                 user_op, cardVars>>

InitStore ==
  /\ file \in Files
  /\ mtime = 0
  /\ word_cache = EmptyCache
  /\ clock = 0
  /\ quiz = NoQuiz
  /\ last_answer = [number |-> IntSub(0), on |-> "word", result |-> NoAnswer]
  /\ current_user = None
  /\ USER_CACHE = {}
  /\ quiz_table = [u \in Users |-> EmptyTable]
  /\ discarded_table = [u \in Users |-> NoRows]
  /\ InitNoRun

NextStore ==
  \/ ReadWords
  \/ \E df \in Stores, append \in BOOLEAN : CommitWordDb(df, append)
  \/ Tick

SpecStore == InitStore /\ [][NextStore]_vars

----------------------------------------------------------------------------
(* read_words on every cache, file and clock: the file is absent or holds  *)
(* a table and carries any modification time, that of a writer whose clock *)
(* is ahead included; the cache is empty or holds a table loaded at a time *)
(* that is past.                                                           *)

Caches ==
  {EmptyCache} \cup {[loaded |-> TRUE, df |-> d, read_time |-> t]
                       : d \in Stores, t \in 0..MaxClock}

InitRead ==
  /\ file \in Files
  /\ mtime \in 0..MaxClock
  /\ clock \in 0..MaxClock
  /\ word_cache \in {c \in Caches : c.read_time <= clock}
  /\ quiz = NoQuiz
  /\ last_answer = [number |-> IntSub(0), on |-> "word", result |-> NoAnswer]
  /\ current_user = None
  /\ USER_CACHE = {}
  /\ quiz_table = [u \in Users |-> EmptyTable]
  /\ discarded_table = [u \in Users |-> NoRows]
  /\ InitNoRun

NextRead ==
  \/ ReadWords
  \/ Tick

SpecRead == InitRead /\ [][NextRead]_vars

----------------------------------------------------------------------------
(* The claims.                                                             *)

\* C1: a session started with question_count = N ends exactly on the N-th
\* correct submission: when a submission ends the run, the submissions judged
\* correct up to and including it number N.
C1_EndsOnNthCorrect ==
  exited_by \in {"correct", "incorrect"} => n_correct = question_count

\* C2: the scoreboard entry of a word for a user is the number of calls of
\* record_result made for them with right, and the number made with wrong.
C2_CountersCountCalls ==
  \A u \in Users, w \in Words :
    ScoreboardEntry(UserState, u, w) = <<calls[u][w].right, calls[u][w].wrong>>

\* C3: a correct submission credits a right point only if no submission was
\* judged incorrect since the question was built; the flag the credit depends
\* on says at every moment whether the current question was missed, so it is
\* reset with every new question.
C3_NoCreditAfterMiss ==
  /\ last.op = "item_chosen" /\ last.credited => last.correct /\ ~last.missed_before
  /\ last.op = "item_chosen" /\ last.correct /\ ~last.missed_before => last.credited
  /\ started => (answered_correctly <=> ~missed)
  /\ last.op = "item_chosen" /\ last.correct /\ quiz.status = "ok" => answered_correctly

\* C3: a question that was missed is answered correctly at last, for a user
\* whose results are kept, and earns no credit.
C3_Witness ==
  /\ last.op = "item_chosen"
  /\ last.correct
  /\ last.missed_before
  /\ ~last.credited
  /\ user_name # None
  /\ answered_correctly
  /\ \E w \in Words : calls[user_name][w].wrong > 0 /\ calls[user_name][w].right = 0

\* C4: an incorrect submission never ends the session, whatever question_count
\* it was started with.
C4_IncorrectNeverEnds == exited_by # "incorrect"

\* C5: a submission is judged in the direction the question on display was
\* drawn in: against the correct index of the choice list that was shown.
C5_JudgedAsShown ==
  [][n_submits' = n_submits + 1 /\ last'.op = "item_chosen"
       => last'.correct = Answer(quiz, IntSub(last'.choice), shown_on, ReadNow).value]_vars

\* C6: for a quiz built once the same submission yields the same result on
\* every call, whatever happens to the word store between the calls.
C6_SameAnswerEveryCall ==
  [][(/\ quiz' = quiz
      /\ last_answer.result.status # "none"
      /\ last_answer'.result.status # "none"
      /\ last_answer'.number = last_answer.number
      /\ last_answer'.on = last_answer.on)
       => last_answer'.result = last_answer.result]_vars

\* a list without two equal entries
NoDuplicates(seq) == \A i, j \in 1..Len(seq) : i # j => seq[i] # seq[j]

\* C7: in both directions the choice list of a built quiz has no duplicate
\* entries, so the true choice occurs in it exactly once.
C7_NoDuplicateChoices ==
  quiz.status = "ok" =>
    /\ NoDuplicates(quiz.quiz_words)
    /\ NoDuplicates(quiz.quiz_definitions)
    /\ Cardinality({i \in 1..Len(quiz.quiz_words) : quiz.quiz_words[i] = quiz.word}) = 1
    /\ Cardinality({i \in 1..Len(quiz.quiz_definitions) :
                      quiz.quiz_definitions[i] = file.df[quiz.word]}) = 1

\* the smaller of two numbers
Min(a, b) == IF a < b THEN a ELSE b

\* C8: the choice lists have exactly count entries when the store holds at
\* least count entries, and one entry per store entry otherwise.
C8_ExactlyCountChoices ==
  quiz.status = "ok" =>
    /\ Len(quiz.quiz_definitions) = Min(quiz.count, DfLen(file.df))
    /\ Len(quiz.quiz_words) = Min(quiz.count, DfLen(file.df))

\* C9: for a word of the store and a count n >= 1 both choice lists have
\* between 1 and n entries and hold the word's true choice, also when the
\* store has fewer than n entries, and the assertions of the builder hold.
C9_TrueChoicePresent ==
  /\ quiz.status # "AssertionError"
  /\ quiz.status = "ok" =>
       /\ Len(quiz.quiz_definitions) \in 1..quiz.count
       /\ Len(quiz.quiz_words) \in 1..quiz.count
       /\ file.df[quiz.word] \in Range(quiz.quiz_definitions)
       /\ quiz.word \in Range(quiz.quiz_words)
       /\ TrueInd(file.df, quiz.word) \in Range(quiz.inds)
       /\ Len(quiz.inds) = Cardinality(Range(quiz.inds))

\* C9: a quiz built with a count larger than the store.
C9_Witness ==
  /\ quiz.status = "ok"
  /\ DfLen(file.df) < quiz.count
  /\ Len(quiz.quiz_definitions) = 1
  /\ Len(quiz.quiz_words) = 1

\* the position of the first entry of the shown list that is the true choice,
\* as the tests compute it from the word's definition and name
TruePosition(q, on) ==
  IF on = "word" THEN Index0(q.quiz_definitions, q.definition)
  ELSE Index0(q.quiz_words, q.word)

\* the position a submission names: an index, or a letter's place in the alphabet
NamedPosition(number) ==
  IF number.kind = "int" THEN number.n
  ELSE (CHOOSE i \in 1..Len(Letters) : Letters[i] = number.s) - 1

\* an index, or a single lowercase letter, within the choice list
InChoiceList(number, q, on) ==
  /\ number.kind = "str" => \E i \in 1..Len(Letters) : Letters[i] = number.s
  /\ NamedPosition(number) \in 0..(Len(Choices(q, on)) - 1)

\* C10: in both directions answer() returns true for the index of the correct
\* choice and for its letter, and false for every other index and letter
\* within the choice list.
C10_AnswerIffCorrectIndex ==
  last_answer.result.status # "none"
    /\ InChoiceList(last_answer.number, quiz, last_answer.on) =>
      /\ last_answer.result.status = "ok"
      /\ last_answer.result.value
           <=> NamedPosition(last_answer.number) = TruePosition(quiz, last_answer.on)

\* C10: the letter b is submitted and is the correct choice of a list of two.
C10_Witness ==
  /\ last_answer.result.status = "ok"
  /\ last_answer.result.value
  /\ last_answer.number = StrSub("b")
  /\ Len(Choices(quiz, last_answer.on)) = 2

\* C11: in both directions answer() returns false and raises nothing for a
\* letter beyond the choice list, a string that is not one lowercase letter,
\* and an integer outside the range of the choice list.
C11_OutOfRangeIsFalse ==
  (last_answer.result.status # "none"
     /\ ~InChoiceList(last_answer.number, quiz, last_answer.on))
    => last_answer.result = Returned(FALSE)

\* C11: the capital A is submitted when the correct choice is the first.
C11_Witness ==
  /\ last_answer.result = Returned(FALSE)
  /\ last_answer.number = StrSub("A")
  /\ TruePosition(quiz, last_answer.on) = 0

\* C12: while the word file is absent read_words returns an empty table and
\* raises nothing, on the first read and on every later one.
C12_AbsentFileReadsEmpty ==
  last_read.status # "none" /\ ~file.exists
    => last_read.status = "ok" /\ last_read.df = EmptyDf

\* C13: a read returns the table the file holds, never one older than the
\* last write; it loads the file when the file was modified after the last
\* load and returns the cached table without a load otherwise.
C13_ReadsAreCurrent ==
  [][(/\ last_read'.status = "ok"
      /\ last_read' # last_read \/ word_cache' # word_cache
      /\ file' = file)
       => /\ last_read'.df = file.df
          /\ word_cache.loaded /\ mtime <= word_cache.read_time
               => last_read'.reads = 0
          /\ word_cache.loaded /\ mtime > word_cache.read_time
               => last_read'.reads = 1]_vars

C15_DiscardedNeverDrawn ==
  card_run.status = "ok" /\ ~card_run.has_exited
    => card_run.word \notin Range(card_obs.discarded)

\* C15: a card is drawn by a keep after another word was discarded.
C15_Witness ==
  /\ card_run.status = "ok"
  /\ ~card_run.has_exited
  /\ Len(card_obs.discarded) = 1
  /\ card_obs.key = "right"
  /\ card_run.word \in card_obs.deck

\* C16: the deck never grows; keep and flip leave it as it is, a discard
\* removes the word of the card shown and nothing else, and no key changes
\* the user store.
C16_DeckChangesByDiscardOnly ==
  [][card_run.status = "ok" /\ card_obs'.keys = card_obs.keys + 1
       => /\ Range(card_run'.words) \subseteq Range(card_run.words)
          /\ card_obs'.key \in {"right", "f"} => card_run'.words = card_run.words
          /\ card_obs'.key = "left"
               => /\ Range(card_run'.words) = Range(card_run.words) \ {card_run.word}
                  /\ Len(card_run'.words) = Len(card_run.words) - 1
          /\ userVars' = userVars]_vars

\* C16: a flip is handled after a discard and another key, with one word left.
C16_Witness ==
  /\ card_run.status = "ok"
  /\ card_obs.key = "f"
  /\ card_obs.keys = 3
  /\ Len(card_obs.discarded) = 1
  /\ Len(card_run.words) = 1

\* C17: after a user was deleted, a user created again under the same name
\* has (0,0) for every word and no discarded word.
C17_DeletedUserStartsAfresh ==
  user_op.op = "delete_user" /\ user_op.name # None =>
    LET us == UserInit(UserState, user_op.name, FALSE) IN
    /\ \A w \in Words : ScoreboardEntry(us, user_op.name, w) = <<0, 0>>
    /\ GetDiscardedWords(us, user_op.name) = {}

\* C18: deleting a user who does not exist, for the first time or again,
\* raises nothing and leaves the tables of every other user and a
\* current-user pointer that names another user as they are.
C18_DeleteAbsentUserIsNoOp ==
  [][(/\ user_op'.op = "delete_user"
      /\ user_op'.n = user_op.n + 1
      /\ user_op'.name # None
      /\ user_op'.name \notin USER_CACHE)
       => /\ user_op'.status = "ok"
          /\ \A u \in Users \ {user_op'.name} :
               /\ quiz_table'[u] = quiz_table[u]
               /\ discarded_table'[u] = discarded_table[u]
          /\ current_user \notin {None, user_op'.name}
               => current_user' = current_user]_vars

\* C19: get_discarded_words returns exactly the words discarded for the
\* user, so it holds a word once it was discarded and a second discard of
\* the word changes nothing in it.
C19_DiscardedWordsAreThoseDiscarded ==
  user_op.op = "get_discarded_words" /\ user_op.name # None
    => user_op.words = user_op.discards[user_op.name]

\* C19: a word was discarded twice for a user and is returned once.
C19_Witness ==
  /\ user_op.op = "get_discarded_words"
  /\ user_op.name # None
  /\ \E w \in Words :
       /\ discarded_table[user_op.name][w] = 2
       /\ user_op.words = {w}

\* the calls of record_result made for a user, over all words
CallsFor(u) ==
  LET RECURSIVE Sum(_)
      Sum(S) == IF S = {} THEN 0
                ELSE LET w == CHOOSE w \in S : TRUE IN
                     calls[u][w].right + calls[u][w].wrong + Sum(S \ {w})
  IN Sum(Words)

\* C20: the scoreboard has an entry for every word of the word store, (0,0)
\* for a word without a recorded result; after one result in all, a right
\* for w, the entry of w is (1,0) and every other entry is (0,0).
C20_ScoreboardCoversStore ==
  user_op.op = "get_quiz_df" /\ user_op.status = "ok" /\ user_op.name # None
    => LET u == user_op.name IN
       /\ DOMAIN file.df \subseteq DOMAIN user_op.board
       /\ \A w \in DOMAIN file.df :
            /\ calls[u][w] = [right |-> 0, wrong |-> 0] => user_op.board[w] = <<0, 0>>
            /\ CallsFor(u) = 1 /\ calls[u][w].right = 1 => user_op.board[w] = <<1, 0>>

\* C20: the scoreboard of a user with one right for bat, on a store of two words.
C20_Witness ==
  /\ user_op.op = "get_quiz_df"
  /\ user_op.status = "ok"
  /\ user_op.name = "alice"
  /\ DOMAIN file.df = {"bat", "cat"}
  /\ CallsFor("alice") = 1
  /\ user_op.board = [w \in {"bat", "cat"} |-> IF w = "bat" THEN <<1, 0>> ELSE <<0, 0>>]

\* C21: at most one user is current, and get_current returns the name last
\* passed to set_current: none after set_current(None) and after the user
\* who was current was deleted.
C21_GetReturnsLastSet ==
  /\ Cardinality({u \in Users : IsCurrentUser(UserState, u)}) <= 1
  /\ user_op.op = "get_current" /\ user_op.set => user_op.current = user_op.expected

\* C22: a session in which every submission is correct is done after at most
\* question_count submissions, in either direction, and a session that is
\* done never asks again.
C22_AllCorrectEndsInTime ==
  [][/\ has_exited => has_exited'
     /\ (started' /\ ~has_exited' /\ n_correct' = n_submits')
          => n_submits' < question_count']_vars

\* C22: a run of three questions on definitions is ended by its second
\* submission, both correct.
C22_Witness ==
  /\ has_exited
  /\ exited_by = "correct"
  /\ question_count = 3
  /\ n_submits = 2
  /\ n_correct = 2
  /\ shown_on = "definition"
  /\ quiz_on = "definition"

\* the faces of a card: its word on side word, its formatted definition on
\* side definition
Faces(c) == {<<"word", c.word>>, <<"definition", FormatDefinition(c.definition)>>}

\* C23: a card shows one of two faces, (word, the word) and (definition, the
\* formatted definition), so side and text never disagree; one flip changes
\* the side and the text, and two flips restore both.
C23_TwoFaces ==
  card.status = "ok" =>
    /\ Face(card) = card_shown[Len(card_shown)]
    /\ \A i \in 1..Len(card_shown) : card_shown[i] \in Faces(card)
    /\ \A i \in 1..(Len(card_shown) - 1) :
         /\ card_shown[i + 1][1] # card_shown[i][1]
         /\ card_shown[i + 1][2] # card_shown[i][2]
    /\ \A i \in 1..(Len(card_shown) - 2) : card_shown[i + 2] = card_shown[i]

\* C23: a card was flipped three times and shows its definition.
C23_Witness ==
  /\ card.status = "ok"
  /\ Len(card_shown) = 4
  /\ card.side = "definition"
  /\ card.displayed_text = FormatDefinition(file.df[card.word])

\* C25: building a quiz or a card for a word that is not in the word store
\* raises, KeyError whenever the table could be read, and no quiz or card is
\* built whose definition is that of another word.
C25_UnknownWordNotFound ==
  [][/\ quiz'.status = "ok"
          => quiz'.word \in DOMAIN file.df /\ quiz'.definition = file.df[quiz'.word]
     /\ card'.status = "ok"
          => card'.word \in DOMAIN file.df /\ card'.definition = file.df[card'.word]
     /\ \A word \in Words \ DOMAIN file.df :
          /\ (\E count \in Counts : NewWordQuiz(word, count))
               => /\ quiz'.status # "ok"
                  /\ ReadNow.status = "ok" => quiz'.status = "KeyError"
          /\ NewCard(word)
               => /\ card'.status # "ok"
                  /\ ReadNow.status = "ok" => card'.status = "KeyError"]_vars

\* C25: a quiz and a card were asked for a word that the store, holding
\* another word, does not hold.
C25_Witness ==
  /\ quiz.status = "KeyError"
  /\ card.status = "KeyError"
  /\ DfLen(file.df) = 1

\* C24: a quiz session started with no user named and no current user set
\* keeps no statistics: neither its start nor any of its submissions changes
\* a counter, creates a user record or sets the current-user pointer.
C24_NoUserNoStatistics ==
  [][started' /\ user_name' = None
       => /\ userVars' = userVars
          /\ current_user' = None
          /\ calls' = calls]_vars

\* C24: a run without a user was given a correct and then an incorrect
\* submission.
C24_Witness ==
  /\ started
  /\ user_name = None
  /\ n_correct >= 1
  /\ last.op = "item_chosen"
  /\ ~last.correct
  /\ USER_CACHE = {}

\* C26: a quit ends the quiz or flash card session at once, whatever its
\* state, and leaves the user store, counters, discarded words and
\* current-user pointer, as the submissions before it left them; a session
\* that has ended handles nothing more.
C26_QuitEndsAndKeepsStore ==
  [][/\ \A key \in {"q", "Q"} :
          /\ HandleInput(key)
               => has_exited' /\ userVars' = userVars /\ calls' = calls
          /\ HandleCardInput(key)
               => card_run'.has_exited /\ userVars' = userVars
     /\ started /\ has_exited /\ ~debug => runVars' = runVars /\ quiz' = quiz
     /\ card_run.has_exited /\ ~card_run.debug => card_run' = card_run]_vars

\* C26: a quiz run for a user was quit after a result was recorded.
C26_Witness ==
  /\ exited_by = "quit"
  /\ has_exited
  /\ user_name # None
  /\ n_submits >= 1
  /\ last.op = "item_chosen"
  /\ \E w \in Words : quiz_table[user_name][w].exists

\* C27: a quiz session started without naming a user is run for the current
\* user and leaves the current-user pointer as it was.
C27_UnnamedStartKeepsPointer ==
  [][\A count \in 1..MaxQuestions, choice_count \in Counts, on \in Directions,
        dbg \in BOOLEAN :
       StartQuizRun(count, None, choice_count, on, dbg)
         => /\ current_user' = current_user
            /\ started' => user_name' = current_user]_vars

\* C28: creating or looking up a user by name without asking for it to
\* become current, recording a result and discarding a word leave the
\* current-user pointer as it was.
C28_PointerMovesOnRequestOnly ==
  [][/\ user_op'.n = user_op.n + 1 /\ user_op'.op \in {"record_result", "discard_word"}
          => current_user' = current_user
     /\ \A name \in Users : CreateUser(name, FALSE) => current_user' = current_user]_vars

\* the row a first result leaves for a word
FirstRow(field) == [exists |-> TRUE,
                    right |-> IF field = "right" THEN 1 ELSE 0,
                    wrong |-> IF field = "wrong" THEN 1 ELSE 0]

\* C29: a result is recorded against the word of the question answered: the
\* right point of a first-try correct answer and the wrong point of an
\* incorrect one make the first row of that word, and the row of no other
\* word, the word of the next question included, changes.
C29_RecordedForWordAsked ==
  [][(n_submits' = n_submits + 1 /\ last'.op = "item_chosen" /\ user_name # None)
       => /\ \A u \in Users, w \in Words :
               u # user_name \/ w # quiz.word => quiz_table'[u][w] = quiz_table[u][w]
          /\ (~quiz_table[user_name][quiz.word].exists
                /\ (~last'.correct \/ last'.credited))
               => quiz_table'[user_name][quiz.word]
                    = FirstRow(IF last'.correct THEN "right" ELSE "wrong")]_vars

\* C29: a first-try correct answer for one word was recorded in the step
\* that built the question for the other word.
C29_Witness ==
  /\ last.op = "item_chosen"
  /\ last.credited
  /\ user_name # None
  /\ quiz.status = "ok"
  /\ \E w \in Words :
       /\ w # quiz.word
       /\ quiz_table[user_name][w] = FirstRow("right")
       /\ ~quiz_table[user_name][quiz.word].exists

\* C30: every read of the word store ends, with a table or an error, after
\* at most one load of the file, whatever the cache, the modification time
\* of the file and the clock are.
C30_ReadEndsAfterOneLoad ==
  last_read.status # "none"
    => last_read.status # "RecursionError" /\ last_read.reads <= 1

\* the side a flash card run is to show its cards on: start_on, and after a
\* flip the side the last flip turned the card to
Preference == IF card_obs.flipped_to = None THEN card_obs.start_on
              ELSE card_obs.flipped_to

\* C31: right after a card is drawn in a flash card run, at the start, by a
\* keep or by a discard, the card shows the side the run prefers, start_on
\* or the side the user last flipped a card to; the preference is word or
\* definition.
C31_DrawnOnPreferredSide ==
  card_run.status = "ok" =>
    /\ card_run.side \in {"word", "definition"}
    /\ card_run.side = Preference
    /\ (card_obs.key \in {"start", "left", "right"} /\ ~DeckIsEmpty(card_run.words))
         => card_run.card_side = Preference

\* C31: a run started on words draws a card by a keep after a flip to the
\* definition.
C31_Witness ==
  /\ card_run.status = "ok"
  /\ card_obs.start_on = "word"
  /\ card_obs.flipped_to = "definition"
  /\ card_obs.key = "right"
  /\ card_run.card_side = "definition"

\* the other of the two directions
OtherDirection(on) == IF on = "word" THEN "definition" ELSE "word"

\* C32: the key f changes the direction of the quiz to the other of the two
\* directions, whatever direction the run was started in and however many
\* times the key was pressed before, so pressing it twice restores the
\* direction; the direction is word or definition.
C32_ToggleAlwaysFlips ==
  [][/\ started' => quiz_on' \in {"word", "definition"}
     /\ HandleInput("f") => quiz_on' = OtherDirection(quiz_on)]_vars

\* C32: a run started on words is back on words after the key f was pressed
\* twice, before any answer.
C32_Witness ==
  /\ started
  /\ n_submits = 0
  /\ shown_on = "word"
  /\ quiz_on = "word"
  /\ quiz_on_cycle = 1

====
